---- MODULE Spec2Model ----
(***************************************************************************)
(* A model of kati's ninja backend (ninja.go): the shell-comment stripper, *)
(* the command-chain builder, the depfile resolver and the traversal that  *)
(* writes build.ninja.  Text is modelled as a sequence of one-character    *)
(* strings, so that the string operations of the code are computed as the  *)
(* code computes them.  Go's 0-based indices are kept in the results of    *)
(* Index, IndexAny and IndexByte; SliceFrom and SliceTo take them.         *)
(***************************************************************************)
EXTENDS Integers, Sequences, FiniteSets, TLC

VARIABLES
    nodes,      \* NinjaGenerator.nodes: the root list handed over by the graph
    graph,      \* the DepNode objects, keyed by Output
    gomaDir,    \* the global acceleration-tool directory ("" when unset)
    done,       \* NinjaGenerator.done
    ruleId,     \* NinjaGenerator.ruleId
    f,          \* the lines written to build.ninja so far
    sh,         \* the lines of ninja.sh (<<>> while it does not exist)
    stack,      \* the emitNode calls in progress: [node, next dependency]
    rootIdx,    \* position of the loop over n.nodes in generateNinja
    status,     \* where the generation run stands
    calls,      \* number of emitNode calls made so far
    arg,        \* the input of the function under test (function-level specs)
    ret,        \* its result
    pc          \* position of the function-level specs

vars == <<nodes, graph, gomaDir, done, ruleId, f, sh, stack, rootIdx, status,
          calls, arg, ret, pc>>

graphVars == <<nodes, graph, gomaDir, done, ruleId, f, sh, stack, rootIdx,
               status, calls>>

funcVars == <<arg, ret, pc>>

(***************************************************************************)
(* Bounds of the model.                                                    *)
(***************************************************************************)
MaxStr == 4

MaxRunners == 3

MaxFlags == 3

MaxCalls == 3

(***************************************************************************)
(* Strings.                                                                *)
(***************************************************************************)
Min(S) == CHOOSE x \in S : \A y \in S : x <= y

SliceFrom(s, i) == SubSeq(s, i + 1, Len(s))

SliceTo(s, i) == SubSeq(s, 1, i)

HasPrefixAt(s, sub, i) ==
    /\ i + Len(sub) - 1 <= Len(s)
    /\ \A k \in 1..Len(sub) : s[i + k - 1] = sub[k]

Index(s, sub) ==
    LET hits == {i \in 1..(Len(s) - Len(sub) + 1) : HasPrefixAt(s, sub, i)}
    IN IF hits = {} THEN -1 ELSE Min(hits) - 1

Contains(s, sub) == Index(s, sub) >= 0

IndexAny(s, chars) ==
    LET hits == {i \in 1..Len(s) : s[i] \in chars}
    IN IF hits = {} THEN -1 ELSE Min(hits) - 1

IndexByte(s, c) == IndexAny(s, {c})

RECURSIVE Replace(_, _, _)
Replace(s, old, new) ==
    LET i == Index(s, old)
    IN IF i < 0 THEN s
       ELSE SliceTo(s, i) \o new \o Replace(SliceFrom(s, i + Len(old)), old, new)

RECURSIVE TrimRight(_, _)
TrimRight(s, cutset) ==
    IF s # <<>> /\ s[Len(s)] \in cutset
    THEN TrimRight(SliceTo(s, Len(s) - 1), cutset)
    ELSE s

isWhitespace == {" ", "\t", "\n", "\r"}

RECURSIVE trimLeftSpace(_)
trimLeftSpace(s) ==
    IF s # <<>> /\ s[1] \in isWhitespace THEN trimLeftSpace(Tail(s)) ELSE s

\* filepath.Ext: the suffix from the last "." of the last path element.
Ext(path) ==
    LET stops == {i \in 1..Len(path) : path[i] \in {".", "/"}}
        last == CHOOSE i \in stops : \A j \in stops : j <= i
    IN IF stops = {} \/ path[last] = "/" THEN <<>>
       ELSE SubSeq(path, last, Len(path))

stripExt(s) == SliceTo(s, Len(s) - Len(Ext(s)))

\* filepath.Base: the last element of the path, trailing slashes removed.
Base(path) ==
    LET p == TrimRight(path, {"/"})
        slashes == {i \in 1..Len(p) : p[i] = "/"}
        last == CHOOSE i \in slashes : \A j \in slashes : j <= i
    IN IF path = <<>> THEN <<".">>
       ELSE IF p = <<>> THEN <<"/">>
       ELSE IF slashes = {} THEN p
       ELSE SubSeq(p, last + 1, Len(p))

(***************************************************************************)
(* stripShellComment.                                                      *)
(***************************************************************************)
NoQuote == ""

\* The backquote character, which SANY's lexer cannot hold in a string.
Backquote == "bq"

QuoteChars == {"'", "\"", Backquote}

RECURSIVE stripScan(_, _, _, _)
stripScan(s, i, escape, quote) ==
    IF i > Len(s) THEN s
    ELSE LET c == s[i]
             inQuote == quote # NoQuote
             closes == inQuote /\ quote = c /\ (quote = "'" \/ ~escape)
             comment == ~inQuote /\ ~escape /\ c = "#"
             opens == ~inQuote /\ ~escape /\ c \in QuoteChars
             quote2 == IF closes THEN NoQuote ELSE IF opens THEN c ELSE quote
             escape2 == IF escape THEN FALSE ELSE c = "\\"
         IN IF comment THEN SliceTo(s, i - 1)
            ELSE stripScan(s, i + 1, escape2, quote2)

\* A scan in which a backslash also escapes inside single quotes.
RECURSIVE stripScanEscapeInSingle(_, _, _, _)
stripScanEscapeInSingle(s, i, escape, quote) ==
    IF i > Len(s) THEN s
    ELSE LET c == s[i]
             inQuote == quote # NoQuote
             closes == inQuote /\ quote = c /\ ~escape
             comment == ~inQuote /\ ~escape /\ c = "#"
             opens == ~inQuote /\ ~escape /\ c \in QuoteChars
             quote2 == IF closes THEN NoQuote ELSE IF opens THEN c ELSE quote
             escape2 == IF escape THEN FALSE ELSE c = "\\"
         IN IF comment THEN SliceTo(s, i - 1)
            ELSE stripScanEscapeInSingle(s, i + 1, escape2, quote2)

stripShellCommentEscapeInSingle(s) ==
    IF IndexByte(s, "#") < 0 THEN s
    ELSE stripScanEscapeInSingle(s, 1, FALSE, NoQuote)

stripShellComment(s) ==
    IF IndexByte(s, "#") < 0 THEN s ELSE stripScan(s, 1, FALSE, NoQuote)

(***************************************************************************)
(* getDepfileImpl and getDepfile.  A result is [path, err]; err is NoErr   *)
(* for Go's nil.                                                           *)
(***************************************************************************)
NoErr == "nil"

ErrMultiple == "Multiple output file candidates"

ErrNoDepfile == "Cannot find the depfile"

Result(path, err) == [path |-> path, err |-> err]

\* The token that starts at the head of s: s cut at the first blank.
CutAtBlank(s) ==
    LET end == IndexAny(s, {" ", "\t", "\n"})
    IN IF end >= 0 THEN SliceTo(s, end) ELSE s

getDepfileImpl(ss) ==
    LET tss == ss \o <<" ">>
        mfIndex == Index(ss, <<" ","-","M","F"," ">>)
        mf == trimLeftSpace(SliceFrom(ss, mfIndex + 4))
        outIndex == Index(ss, <<" ","-","o"," ">>)
        out == trimLeftSpace(SliceFrom(ss, outIndex + 4))
    IN IF ~Contains(tss, <<" ","-","M","D"," ">>) /\ ~Contains(tss, <<" ","-","M","M","D"," ">>)
       THEN Result(<<>>, NoErr)
       ELSE IF mfIndex >= 0
       THEN IF Index(mf, <<" ","-","M","F"," ">>) >= 0
            THEN Result(<<>>, ErrMultiple)
            ELSE Result(CutAtBlank(mf), NoErr)
       ELSE IF outIndex < 0
       THEN Result(<<>>, ErrNoDepfile)
       ELSE IF Index(out, <<" ","-","o"," ">>) >= 0
       THEN Result(<<>>, ErrMultiple)
       ELSE Result(stripExt(CutAtBlank(out)) \o <<".","d">>, NoErr)

\* getDepfile with the assembly-source check matching "<name>.s" anywhere.
getDepfileNoSlash(ss) ==
    LET r == getDepfileImpl(ss)
        p == stripExt(r.path) \o <<".","P">>
        as == stripExt(Base(r.path)) \o <<".","s">>
    IN IF Contains(ss, <<"b","i","n","/","l","l","v","m","-","r","s","-","c","c"," ">>) THEN Result(<<>>, NoErr)
       ELSE IF r.path = <<>> \/ r.err # NoErr THEN r
       ELSE IF Contains(ss, p) THEN Result(p, NoErr)
       ELSE IF Contains(ss, as) THEN Result(<<>>, NoErr)
       ELSE r

getDepfile(ss) ==
    LET r == getDepfileImpl(ss)
        p == stripExt(r.path) \o <<".","P">>
        as == <<"/">> \o stripExt(Base(r.path)) \o <<".","s">>
    IN IF Contains(ss, <<"b","i","n","/","l","l","v","m","-","r","s","-","c","c"," ">>) THEN Result(<<>>, NoErr)
       ELSE IF r.path = <<>> \/ r.err # NoErr THEN r
       ELSE IF Contains(ss, p) THEN Result(p, NoErr)
       ELSE IF Contains(ss, as) THEN Result(<<>>, NoErr)
       ELSE r

(***************************************************************************)
(* genShellScript.  A runner is [cmd, ignoreError].                        *)
(***************************************************************************)
NoGoma == <<>>

CompilerNames == {<<"g","c","c">>, <<"g","+","+">>, <<"c","l","a","n","g">>, <<"c","l","a","n","g","+","+">>}

NoNewline(s, from, to) == \A k \in from..to : s[k] # "\n"

\* ccRe: ^prebuilts/(gcc|clang)/.*(gcc|g\+\+|clang|clang\+\+) .* -c
ccReMatch(cmd) ==
    \E pre \in {<<"p","r","e","b","u","i","l","t","s","/","g","c","c","/">>, <<"p","r","e","b","u","i","l","t","s","/","c","l","a","n","g","/">>} :
        /\ HasPrefixAt(cmd, pre, 1)
        /\ \E cc \in CompilerNames :
             \E a \in (Len(pre) + 1)..Len(cmd) :
                /\ HasPrefixAt(cmd, cc \o <<" ">>, a)
                /\ NoNewline(cmd, Len(pre) + 1, a - 1)
                /\ \E c \in (a + Len(cc) + 1)..Len(cmd) :
                      /\ HasPrefixAt(cmd, <<" ","-","c"," ">>, c)
                      /\ NoNewline(cmd, a + Len(cc) + 1, c - 1)

normalizeCmd(raw) ==
    LET c1 == stripShellComment(raw)
        c2 == trimLeftSpace(c1)
        c3 == Replace(c2, <<"\\","\n">>, <<" ">>)
        c4 == TrimRight(c3, {" ", "\t", "\n", ";"})
        c5 == Replace(c4, <<"$">>, <<"$","$">>)
        c6 == Replace(c5, <<"\t">>, <<" ">>)
    IN IF c6 = <<>> THEN <<"t","r","u","e">> ELSE c6

\* A chain whose last command is never followed by " ; true".
lastTailNever(isLast, ignoreError) == <<>>

\* What follows the last command inside its sub-shell.
lastTail(isLast, ignoreError) ==
    IF isLast /\ ignoreError THEN <<" ",";"," ","t","r","u","e">> ELSE <<>>

RECURSIVE genLoop(_, _, _, _, _)
genLoop(runners, goma, i, buf, useGomacc) ==
    IF i > Len(runners) THEN [ss |-> buf, ulp |-> goma # NoGoma /\ ~useGomacc]
    ELSE LET r == runners[i]
             sep == IF i = 1 THEN <<>>
                    ELSE IF runners[i - 1].ignoreError THEN <<" ",";"," ">>
                    ELSE <<" ","&","&"," ">>
             norm == normalizeCmd(r.cmd)
             accel == goma # NoGoma /\ ccReMatch(norm)
             cmd == IF accel THEN goma \o <<"/","g","o","m","a","c","c"," ">> \o norm ELSE norm
             needsSubShell == (i > 1 \/ Len(runners) > 1) /\ cmd[1] # "("
             open == IF needsSubShell THEN <<"(">> ELSE <<>>
             tail == lastTail(i = Len(runners), r.ignoreError)
             close == IF needsSubShell THEN <<")">> ELSE <<>>
         IN genLoop(runners, goma, i + 1,
                    buf \o sep \o open \o cmd \o tail \o close,
                    useGomacc \/ accel)

genShellScript(runners, goma) == genLoop(runners, goma, 1, <<>>, FALSE)

(***************************************************************************)
(* The function-level specifications: Init draws an input, one action      *)
(* applies the function.  The variables of the generation run stay idle.   *)
(***************************************************************************)
GraphIdle ==
    /\ nodes = <<>>
    /\ graph = <<>>
    /\ gomaDir = NoGoma
    /\ done = {}
    /\ ruleId = 0
    /\ f = <<>>
    /\ sh = <<>>
    /\ stack = <<>>
    /\ rootIdx = 0
    /\ status = "idle"
    /\ calls = 0

RECURSIVE SeqsUpTo(_, _)
SeqsUpTo(S, n) ==
    IF n = 0 THEN {<<>>}
    ELSE LET shorter == SeqsUpTo(S, n - 1)
         IN shorter \cup {Append(s, x) : s \in shorter, x \in S}

StripAlphabet == {"a", "#", "'", "\"", "\\", Backquote}

InitStrip ==
    /\ GraphIdle
    /\ arg \in SeqsUpTo(StripAlphabet, MaxStr)
    /\ ret = <<>>
    /\ pc = "call"

StripShellComment ==
    /\ pc = "call"
    /\ ret' = stripShellComment(arg)
    /\ pc' = "return"
    /\ UNCHANGED <<arg, graphVars>>

NextStrip == StripShellComment

SpecStrip == InitStrip /\ [][NextStrip]_vars

(***************************************************************************)
(* The scan rules as the specification words them: the quote the scan is   *)
(* in and whether the next character is escaped, after each character.     *)
(* escapedOpens tells whether a quote character that follows an unescaped  *)
(* backslash opens a quote.                                                *)
(***************************************************************************)
RuleStep(st, c, escapedOpens) ==
    CASE st.quote = "'" ->
            \* backslash is literal, a bare ' closes
            [quote |-> IF c = "'" THEN NoQuote ELSE "'", esc |-> FALSE]
      [] st.quote \in {"\"", Backquote} ->
            [quote |-> IF c = st.quote /\ ~st.esc THEN NoQuote ELSE st.quote,
             esc |-> c = "\\" /\ ~st.esc]
      [] OTHER ->
            [quote |-> IF c \in QuoteChars /\ (escapedOpens \/ ~st.esc)
                       THEN c ELSE NoQuote,
             esc |-> c = "\\" /\ ~st.esc]

RECURSIVE RuleState(_, _, _)
RuleState(s, k, escapedOpens) ==
    IF k = 0 THEN [quote |-> NoQuote, esc |-> FALSE]
    ELSE RuleStep(RuleState(s, k - 1, escapedOpens), s[k], escapedOpens)

\* The positions of the comment markers: outside any quote and not escaped.
CommentMarks(s, escapedOpens) ==
    {i \in 1..Len(s) :
        /\ s[i] = "#"
        /\ RuleState(s, i - 1, escapedOpens).quote = NoQuote
        /\ ~RuleState(s, i - 1, escapedOpens).esc}

Truncated(s, escapedOpens) ==
    LET marks == CommentMarks(s, escapedOpens)
    IN IF marks = {} THEN s ELSE SubSeq(s, 1, Min(marks) - 1)

IsPrefix(p, s) == Len(p) <= Len(s) /\ SubSeq(s, 1, Len(p)) = p

\* C4 as stated: stripShellComment(s) is s truncated before the first '#'
\* outside any quote and not escaped, where a quote opens on any quote
\* character met outside a quote (escaped or not).
C4_AsStated ==
    pc = "return" => ret = Truncated(arg, TRUE)

\* C4, amended: stripShellComment(s) is s truncated just before the first
\* '#' that is outside any quote and not escaped, and s unchanged when there
\* is none, where a quote opens only on an unescaped quote character met
\* outside a quote; the result is always a prefix of s.
C4_StripTruncatesAtFirstComment ==
    pc = "return" =>
        /\ ret = Truncated(arg, FALSE)
        /\ IsPrefix(ret, arg)

\* A '#' kept inside a quote, and the string cut at a later, unquoted '#'.
C4_Witness ==
    /\ pc = "return"
    /\ Len(ret) < Len(arg)
    /\ Contains(ret, <<"#">>)
    /\ ret[1] \in QuoteChars

(***************************************************************************)
(* The rule text of one node: emitNode's calls of genShellScript and       *)
(* getDepfile on the runners the executor returned.                        *)
(***************************************************************************)
RuleText(runners, goma) ==
    LET g == genShellScript(runners, goma)
        d == getDepfile(g.ss)
    IN [ss |-> g.ss, ulp |-> g.ulp, depfile |-> d.path, err |-> d.err]

GenRuleText ==
    /\ pc = "call"
    /\ ret' = RuleText(arg.runners, arg.goma)
    /\ pc' = "return"
    /\ UNCHANGED <<arg, graphVars>>

Digits == <<"1", "2", "3", "4", "5", "6", "7", "8", "9">>

GomaChoices == {NoGoma, <<"/","g">>}

(***************************************************************************)
(* SpecChain: chains of commands that each name their position, in the     *)
(* shapes genShellScript tells apart.  norm is the text the recipe line    *)
(* stands for once its comment, blanks and trailing ';' are gone.          *)
(***************************************************************************)
CmdForms(i) ==
    LET d == <<Digits[i]>>
    IN { [cmd |-> <<"c">> \o d, norm |-> <<"c">> \o d, cc |-> FALSE],
         [cmd |-> <<"(","c">> \o d \o <<")">>, norm |-> <<"(","c">> \o d \o <<")">>, cc |-> FALSE],
         [cmd |-> <<"\t","c">> \o d \o <<" ",";"," ","#"," ","'">>, norm |-> <<"c">> \o d, cc |-> FALSE],
         [cmd |-> <<" ","#"," ","c">> \o d, norm |-> <<"t","r","u","e">>, cc |-> FALSE],
         [cmd |-> <<"p","r","e","b","u","i","l","t","s","/","g","c","c","/","g","c","c"," ","-","O"," ","-","c"," ">> \o d,
          norm |-> <<"p","r","e","b","u","i","l","t","s","/","g","c","c","/","g","c","c"," ","-","O"," ","-","c"," ">> \o d, cc |-> TRUE] }

RunnersAt(i) ==
    {[cmd |-> e.cmd, ignoreError |-> b] : e \in CmdForms(i), b \in BOOLEAN}

RECURSIVE ChainsOfLen(_)
ChainsOfLen(n) ==
    IF n = 0 THEN {<<>>}
    ELSE {Append(s, r) : s \in ChainsOfLen(n - 1), r \in RunnersAt(n)}

ChainInputs == UNION {ChainsOfLen(n) : n \in 1..MaxRunners}

InitChain ==
    /\ GraphIdle
    /\ arg \in [runners : ChainInputs, goma : GomaChoices]
    /\ ret = <<>>
    /\ pc = "call"

NextChain == GenRuleText

SpecChain == InitChain /\ [][NextChain]_vars

(***************************************************************************)
(* POSIX shell list semantics for the chain text: a list is and-or lists   *)
(* separated by ';', an and-or list is commands joined by '&&', a command  *)
(* is a simple command or a sub-shell '(' list ')'.  '&&' binds tighter    *)
(* than ';'.  A simple command "true" succeeds; any other succeeds unless  *)
(* the position it names (its last character) is in fails.                 *)
(***************************************************************************)
OpChars == {"(", ")", ";"}

\* Position i of s is one half of an "&&".
IsAmp(s, i) ==
    /\ s[i] = "&"
    /\ \/ i < Len(s) /\ s[i + 1] = "&"
       \/ i > 1 /\ s[i - 1] = "&"

IsWordChar(s, i) == s[i] \notin (OpChars \cup {" "}) /\ ~IsAmp(s, i)

\* The positions where a token of s starts: an operator or a word.
TokenStarts(s) ==
    {i \in 1..Len(s) :
        \/ s[i] \in OpChars
        \/ IsAmp(s, i) /\ (i = 1 \/ s[i - 1] # "&")
        \/ IsWordChar(s, i) /\ (i = 1 \/ ~IsWordChar(s, i - 1))}

TokenAt(s, i) ==
    IF s[i] \in OpChars THEN [k |-> s[i], word |-> <<>>]
    ELSE IF IsAmp(s, i) THEN [k |-> "&&", word |-> <<>>]
    ELSE LET end == CHOOSE e \in i..Len(s) :
                        /\ \A j \in i..e : IsWordChar(s, j)
                        /\ e = Len(s) \/ ~IsWordChar(s, e + 1)
         IN [k |-> "word", word |-> SubSeq(s, i, end)]

Lex(s) ==
    LET starts == TokenStarts(s)
        nth(n) == CHOOSE i \in starts : Cardinality({j \in starts : j < i}) = n - 1
    IN [n \in 1..Cardinality(starts) |-> TokenAt(s, nth(n))]

\* The position named by the simple command whose first word is token j: the
\* last character of its last word; 0 for "true" and for a command that names
\* no position.
PositionOf(toks, j) ==
    LET last == CHOOSE e \in j..Len(toks) :
                    /\ \A t \in j..e : toks[t].k = "word"
                    /\ e = Len(toks) \/ toks[e + 1].k # "word"
        w == toks[last].word
        c == w[Len(w)]
    IN IF (last = j /\ w = <<"t","r","u","e">>) \/ \A i \in 1..Len(Digits) : Digits[i] # c
       THEN 0
       ELSE CHOOSE i \in 1..Len(Digits) : Digits[i] = c

\* A shell state: st is $? (0 means success), skip tells that the and-or
\* list in progress has failed, live that this shell runs at all, ran is the
\* set of positions whose command was executed, outer the enclosing shells.
ShStep(toks, j, fails, s) ==
    LET k == toks[j].k
        runs == s.live /\ ~s.skip
        p == PositionOf(toks, j)
    IN CASE k = "word" ->
              IF runs /\ (j = 1 \/ toks[j - 1].k # "word")
              THEN [s EXCEPT !.st = IF p \in fails THEN 1 ELSE 0,
                             !.ran = s.ran \cup ({p} \ {0})]
              ELSE s
         [] k = ";" -> [s EXCEPT !.skip = FALSE]
         [] k = "&&" -> [s EXCEPT !.skip = s.skip \/ s.st # 0]
         [] k = "(" ->
              [s EXCEPT !.outer = Append(s.outer, [skip |-> s.skip, live |-> s.live]),
                        !.live = runs,
                        !.skip = FALSE]
         [] k = ")" ->
              [s EXCEPT !.outer = SubSeq(s.outer, 1, Len(s.outer) - 1),
                        !.live = s.outer[Len(s.outer)].live,
                        !.skip = s.outer[Len(s.outer)].skip]

RECURSIVE Sh(_, _, _)
Sh(toks, j, fails) ==
    IF j = 0
    THEN [st |-> 0, skip |-> FALSE, live |-> TRUE, ran |-> {}, outer |-> <<>>]
    ELSE ShStep(toks, j, fails, Sh(toks, j - 1, fails))

Run(toks, fails) == Sh(toks, Len(toks), fails)

Tolerant(i) == arg.runners[i].ignoreError

FormOf(i) == CHOOSE e \in CmdForms(i) : e.cmd = arg.runners[i].cmd

\* The command at position i names its position in the chain text.
Tracked(i) == FormOf(i).norm # <<"t","r","u","e">>

\* C2 as stated: under every assignment of failures, once a command that is
\* not error-tolerant has run and failed, no later command of the chain is
\* executed and the chain exits with failure; and a failed error-tolerant
\* command is followed by the execution of the next command.
C2_StopsOnFailure ==
    pc = "return" =>
        LET toks == Lex(ret.ss)
        IN \A fails \in SUBSET (1..Len(arg.runners)) :
            LET run == Run(toks, fails)
            IN \A i \in run.ran \cap fails :
                  IF Tolerant(i)
                  THEN i < Len(arg.runners) /\ Tracked(i + 1) => i + 1 \in run.ran
                  ELSE /\ \A j \in run.ran : j <= i
                       /\ run.st # 0

EndsWith(s, suffix) ==
    Len(suffix) <= Len(s) /\ SubSeq(s, Len(s) - Len(suffix) + 1, Len(s)) = suffix

\* The command text of the last runner as it stands in the chain.
LastCmd ==
    LET e == FormOf(Len(arg.runners))
    IN IF arg.goma # NoGoma /\ e.cc THEN arg.goma \o <<"/","g","o","m","a","c","c"," ">> \o e.norm
       ELSE e.norm

LastWrapped == Len(arg.runners) > 1 /\ LastCmd[1] # "("

\* C3: when the last command is error-tolerant, " ; true" follows it in the
\* chain text, inside its sub-shell when it is wrapped, and every execution
\* that reaches the last command exits with success; when the last command is
\* not error-tolerant, nothing follows it but the close of its sub-shell.
C3_TolerantLastExitsSuccess ==
    pc = "return" =>
        LET n == Len(arg.runners)
            toks == Lex(ret.ss)
        IN IF Tolerant(n)
           THEN /\ EndsWith(ret.ss, IF LastWrapped
                                    THEN <<"(">> \o LastCmd \o <<" ",";"," ","t","r","u","e",")">>
                                    ELSE LastCmd \o <<" ",";"," ","t","r","u","e">>)
                /\ \A fails \in SUBSET (1..n) :
                      LET run == Run(toks, fails)
                      IN n \in run.ran => run.st = 0
           ELSE EndsWith(ret.ss, IF LastWrapped
                                 THEN <<"(">> \o LastCmd \o <<")">>
                                 ELSE LastCmd)

\* A chain of three commands whose last one is error-tolerant and wrapped,
\* and fails in an execution that reaches it.
C3_Witness ==
    /\ pc = "return"
    /\ Len(arg.runners) = 3
    /\ Tolerant(3)
    /\ LastWrapped
    /\ LET run == Run(Lex(ret.ss), {3})
       IN 3 \in run.ran /\ run.st = 0

(***************************************************************************)
(* SpecChainDep: the chains emitNode hands to getDepfile.  A compile       *)
(* command "cc <flags>" stands alone, or after and/or before another       *)
(* command of the recipe, so that genShellScript wraps it in a sub-shell.  *)
(***************************************************************************)
RECURSIVE JoinWords(_)
JoinWords(ws) ==
    IF ws = <<>> THEN <<>> ELSE <<" ">> \o ws[1] \o JoinWords(Tail(ws))

MFFlag == <<"-","M","F"," ","m",".","d">>

OutFlag == <<"-","o"," ","a",".","o">>

CompileFlags == {<<"-","M","D">>, <<"-","M","M","D">>, MFFlag, OutFlag, <<"-","c"," ","a",".","c">>}

Runner(cmd, ign) == [cmd |-> cmd, ignoreError |-> ign]

CompileChain(flags, before, after, ign) ==
    (IF before THEN <<Runner(<<"m","k">>, FALSE)>> ELSE <<>>)
    \o <<Runner(<<"c","c">> \o JoinWords(flags), ign)>>
    \o (IF after THEN <<Runner(<<"o","k">>, FALSE)>> ELSE <<>>)

InitChainDep ==
    /\ GraphIdle
    /\ \E flags \in SeqsUpTo(CompileFlags, MaxFlags), before, after, ign \in BOOLEAN :
          arg = [runners |-> CompileChain(flags, before, after, ign),
                 goma |-> NoGoma,
                 flags |-> flags]
    /\ ret = <<>>
    /\ pc = "call"

NextChainDep == GenRuleText

SpecChainDep == InitChainDep /\ [][NextChainDep]_vars

Count(flags, x) == Cardinality({i \in 1..Len(flags) : flags[i] = x})

\* C5 as stated: for a chain text that contains " -MD " or " -MMD " (the text
\* taken with a blank after it), one -MF resolves to its path argument, two
\* are an error; without -MF one -o resolves to its path with the extension
\* replaced by ".d"; neither flag, or two -o without -MF, is an error.  A chain
\* text with neither " -MD " nor " -MMD " resolves to the empty path, no error.
C5_DepfileOfChain ==
    pc = "return" =>
        LET text == ret.ss \o <<" ">>
            mf == Count(arg.flags, MFFlag)
            out == Count(arg.flags, OutFlag)
            got == Result(ret.depfile, ret.err)
        IN IF ~Contains(text, <<" ","-","M","D"," ">>) /\ ~Contains(text, <<" ","-","M","M","D"," ">>)
           THEN got = Result(<<>>, NoErr)
           ELSE /\ mf = 1 => got = Result(<<"m",".","d">>, NoErr)
                /\ mf = 2 => ret.err # NoErr
                /\ mf = 0 /\ out = 1 => got = Result(<<"a",".","d">>, NoErr)
                /\ mf = 0 /\ out \in {0, 2} => ret.err # NoErr

(***************************************************************************)
(* SpecDep: getDepfile on the text of one compile command.                 *)
(***************************************************************************)
AsmHere == <<"-","c"," ","f","o","o",".","s">>

AsmInDir == <<"-","c"," ","s","r","c","/","f","o","o",".","s">>

DepFlags ==
    {<<"-","M","D">>, AsmHere, AsmInDir, <<"-","c"," ","s","r","c","/","b","a","r",".","s">>, <<"-","o"," ","f","o","o",".","o">>, <<"-","M","F"," ","f","o","o",".","d">>,
     <<"f","o","o",".","P">>}

InitDep ==
    /\ GraphIdle
    /\ \E flags \in SeqsUpTo(DepFlags, MaxFlags) :
          arg = [ss |-> <<"g","c","c">> \o JoinWords(flags), flags |-> flags]
    /\ ret = <<>>
    /\ pc = "call"

GetDepfile ==
    /\ pc = "call"
    /\ ret' = getDepfile(arg.ss)
    /\ pc' = "return"
    /\ UNCHANGED <<arg, graphVars>>

NextDep == GetDepfile

SpecDep == InitDep /\ [][NextDep]_vars

Has(flag) == Count(arg.flags, flag) > 0

\* The command asks for dependency tracking, its depfile path derives to
\* foo.d (from one -MF foo.d, or else from one -o foo.o), and no foo.P is
\* mentioned.
DerivesFooD ==
    /\ Has(<<"-","M","D">>)
    /\ \/ Count(arg.flags, <<"-","M","F"," ","f","o","o",".","d">>) = 1
       \/ ~Has(<<"-","M","F"," ","f","o","o",".","d">>) /\ Count(arg.flags, <<"-","o"," ","f","o","o",".","o">>) = 1
    /\ ~Has(<<"f","o","o",".","P">>)

Nodes == 1..MaxCalls

\* The executor: one runner per recipe line, the line's '@', '-' and '+'
\* prefix taken off ('-' makes the runner error-tolerant), and a line with
\* nothing left dropped.
RECURSIVE stripPrefix(_, _)
stripPrefix(cmd, ign) ==
    IF cmd # <<>> /\ cmd[1] \in {"@", "-", "+"}
    THEN stripPrefix(Tail(cmd), ign \/ cmd[1] = "-")
    ELSE Runner(cmd, ign)

RECURSIVE createRunners(_)
createRunners(cmds) ==
    IF cmds = <<>> THEN <<>>
    ELSE LET r == stripPrefix(cmds[1], FALSE)
         IN (IF r.cmd = <<>> THEN <<>> ELSE <<r>>) \o createRunners(Tail(cmds))

\* The recipes a node is drawn with: no recipe; a phony target; a silent
\* recipe line with nothing to run, on an order-only prerequisite; a
\* compilation that names its output; one that asks for a depfile and names
\* no output.
NodeKinds ==
    { [Cmds |-> <<>>, IsPhony |-> FALSE, IsOrderOnly |-> FALSE],
      [Cmds |-> <<>>, IsPhony |-> TRUE, IsOrderOnly |-> FALSE],
      [Cmds |-> <<<<"@">>>>, IsPhony |-> FALSE, IsOrderOnly |-> TRUE],
      [Cmds |-> <<<<"c","c"," ","-","M","D"," ","-","o"," ","a",".","o">>>>, IsPhony |-> FALSE, IsOrderOnly |-> FALSE],
      [Cmds |-> <<<<"c","c"," ","-","M","D">>>>, IsPhony |-> FALSE, IsOrderOnly |-> FALSE] }

DefaultKind == [Cmds |-> <<>>, IsPhony |-> FALSE, IsOrderOnly |-> FALSE]

MaxOf(s) ==
    IF s = <<>> THEN 0
    ELSE CHOOSE m \in Nodes : /\ \E i \in 1..Len(s) : s[i] = m
                              /\ \A i \in 1..Len(s) : s[i] <= m

\* Outputs are interchangeable and emitNode reads only the nodes it reaches,
\* so a graph is drawn with its nodes numbered in the order in which the root
\* list and then the Deps lists of nodes 1, 2, ... first mention them (in the
\* flat sequence of all mentions every Output is at most one more than the
\* largest before it), and with nothing but reachable nodes.  MaxCalls bounds
\* the length of that sequence: the number of roots plus the number of edges.
InOrderOfMention(s) ==
    \A i \in 1..Len(s) : s[i] <= MaxOf(SubSeq(s, 1, i - 1)) + 1

Flats == {s \in SeqsUpTo(Nodes, MaxCalls) : s # <<>> /\ InOrderOfMention(s)}

RECURSIVE SumTo(_, _)
SumTo(lens, n) == IF n = 0 THEN 0 ELSE lens[n] + SumTo(lens, n - 1)

\* The ways to cut a flat sequence: lens[n] mentions go to the Deps of node n,
\* the mentions before them (at least one) are the root list.
CutsOf(flat) ==
    {lens \in [Nodes -> 0..(Len(flat) - 1)] : SumTo(lens, MaxCalls) < Len(flat)}

RootsOf(flat, lens) == SubSeq(flat, 1, Len(flat) - SumTo(lens, MaxCalls))

DepsOf(flat, lens, n) ==
    LET r == Len(flat) - SumTo(lens, MaxCalls)
    IN SubSeq(flat, r + SumTo(lens, n - 1) + 1, r + SumTo(lens, n))

Range(s) == {s[i] : i \in 1..Len(s)}

\* The Outputs reachable from the set S along deps.
RECURSIVE ReachableFrom(_, _)
ReachableFrom(S, deps) ==
    LET more == S \cup UNION {Range(deps[n]) : n \in S}
    IN IF more = S THEN S ELSE ReachableFrom(more, deps)

Shapes ==
    UNION { { [roots |-> RootsOf(flat, lens),
               deps |-> [n \in Nodes |-> DepsOf(flat, lens, n)]] :
                 lens \in CutsOf(flat) } : flat \in Flats }

ReachableShapes ==
    {g \in Shapes :
        \A n \in Nodes : g.deps[n] # <<>> => n \in ReachableFrom(Range(g.roots), g.deps)}

MakeNode(deps, kind) ==
    [Deps |-> deps, Cmds |-> kind.Cmds, IsPhony |-> kind.IsPhony,
     IsOrderOnly |-> kind.IsOrderOnly]

Init ==
    /\ \E g \in ReachableShapes :
         \E kinds \in [ReachableFrom(Range(g.roots), g.deps) -> NodeKinds] :
            /\ nodes = g.roots
            /\ graph = [n \in Nodes |->
                          MakeNode(g.deps[n],
                                   IF n \in DOMAIN kinds THEN kinds[n]
                                   ELSE DefaultKind)]
            /\ gomaDir \in GomaChoices
    /\ done = {}
    /\ ruleId = 0
    /\ f = <<>>
    /\ sh = <<>>
    /\ stack = <<>>
    /\ rootIdx = 0
    /\ status = "start"
    /\ calls = 0
    /\ arg = <<>>
    /\ ret = <<>>
    /\ pc = "run"

(***************************************************************************)
(* The lines of the two files.                                             *)
(***************************************************************************)
Line(t, x) == [t |-> t, x |-> x]

\* generateShell: the script is created, written and made executable.  The
\* export and unset lines depend on the evaluator alone and are left out.
GenerateShell ==
    /\ status = "start"
    /\ sh' = <<Line("shebang", <<"/","b","i","n","/","s","h">>),
               Line("exec", IF gomaDir = NoGoma THEN <<"e","x","e","c"," ","n","i","n","j","a">>
                            ELSE <<"e","x","e","c"," ","n","i","n","j","a"," ","-","j","3","0","0">>)>>
    /\ status' = "shell"
    /\ UNCHANGED <<nodes, graph, gomaDir, done, ruleId, f, stack, rootIdx,
                   calls, funcVars>>

\* generateNinja up to its loop over n.nodes.
GenerateNinjaOpen ==
    /\ status = "shell"
    /\ f' = <<Line("comment", <<"#"," ","G","e","n","e","r","a","t","e","d"," ","b","y"," ","k","a","t","i">>), Line("blank", <<>>)>>
            \o (IF gomaDir # NoGoma
                THEN <<Line("pool_decl", <<"l","o","c","a","l","_","p","o","o","l">>), Line("depth", <<>>)>>
                ELSE <<>>)
    /\ rootIdx' = 1
    /\ status' = "emitting"
    /\ UNCHANGED <<nodes, graph, gomaDir, done, ruleId, sh, stack, calls,
                   funcVars>>

\* fmt's %d of a natural number.
RECURSIVE Itoa(_)
Itoa(n) ==
    LET digit == <<SubSeq(<<"0","1","2","3","4","5","6","7","8","9">>, (n % 10) + 1, (n % 10) + 1)[1]>>
    IN IF n < 10 THEN digit ELSE Itoa(n \div 10) \o digit

RuleName(id) == <<"r","u","l","e">> \o Itoa(id)

\* genRuleName returns the name made of n.ruleId; its caller's action
\* advances the counter.
genRuleName == RuleName(ruleId)

PhonyRule == <<"p","h","o","n","y">>

ArgLenLimit == 100000

getDepString(node) ==
    LET deps == SelectSeq(graph[node].Deps, LAMBDA d : ~graph[d].IsOrderOnly)
        orderOnlys == SelectSeq(graph[node].Deps, LAMBDA d : graph[d].IsOrderOnly)
    IN [deps |-> deps, orderOnlys |-> orderOnlys]

emitBuild(output, rule, dep) ==
    Line("build", [output |-> output, rule |-> rule, deps |-> dep.deps,
                   orderOnlys |-> dep.orderOnlys])

\* createRunners and RuleText, tabulated over the recipes of NodeKinds.
RunnersOf == [cmds \in {k.Cmds : k \in NodeKinds} |-> createRunners(cmds)]

RuleTextOf ==
    [cmds \in {k.Cmds : k \in NodeKinds} |->
        [goma \in GomaChoices |-> RuleText(RunnersOf[cmds], goma)]]

\* The node emitNode is about to be called on: the next root while no call is
\* in progress, else the next dependency of the innermost call.
Top == stack[Len(stack)]

HasTarget ==
    /\ status = "emitting"
    /\ IF stack = <<>> THEN rootIdx <= Len(nodes)
       ELSE Top.next <= Len(graph[Top.node].Deps)

Target == IF stack = <<>> THEN nodes[rootIdx] ELSE graph[Top.node].Deps[Top.next]

\* The caller's loop moves on to its next element.
CallerStepped ==
    IF stack = <<>> THEN stack
    ELSE [stack EXCEPT ![Len(stack)].next = Top.next + 1]

RootStepped == IF stack = <<>> THEN rootIdx + 1 ELSE rootIdx

\* An emitNode without the check of n.done.
NeverVisited(node) == FALSE

Visited(node) == node \in done

\* An emitNode that does not record the node in n.done.
MarkDoneSkipped(node) == done

MarkDone(node) == done \cup {node}

\* A leaf test with the negation of IsPhony lost.
IsDanglingLeafNeedsPhony(node) ==
    /\ Len(graph[node].Cmds) = 0
    /\ Len(graph[node].Deps) = 0
    /\ graph[node].IsPhony

IsDanglingLeaf(node) ==
    /\ Len(graph[node].Cmds) = 0
    /\ Len(graph[node].Deps) = 0
    /\ ~graph[node].IsPhony

\* The lines of the rule block up to the depfile line.
RuleHead(ruleName, text) ==
    <<Line("rule", ruleName), Line("description", <<"b","u","i","l","d"," ","$","o","u","t">>)>>
    \o (IF text.depfile # <<>> THEN <<Line("depfile", text.depfile)>> ELSE <<>>)

RuleCommand(text) ==
    IF Len(text.ss) > ArgLenLimit
    THEN <<Line("rspfile", <<"$","o","u","t",".","r","s","p">>), Line("rspfile_content", text.ss),
           Line("command", <<"s","h"," ","$","o","u","t",".","r","s","p">>)>>
    ELSE <<Line("command", text.ss)>>

\* emitNode on a node already in n.done.
EmitNodeVisited ==
    /\ HasTarget
    /\ Visited(Target)
    /\ stack' = CallerStepped
    /\ rootIdx' = RootStepped
    /\ calls' = calls + 1
    /\ UNCHANGED <<nodes, graph, gomaDir, done, ruleId, f, sh, status, funcVars>>

\* emitNode on a dangling leaf.
EmitNodeLeaf ==
    /\ HasTarget
    /\ ~Visited(Target)
    /\ IsDanglingLeaf(Target)
    /\ done' = MarkDone(Target)
    /\ stack' = CallerStepped
    /\ rootIdx' = RootStepped
    /\ calls' = calls + 1
    /\ UNCHANGED <<nodes, graph, gomaDir, ruleId, f, sh, status, funcVars>>

\* emitNode up to its loop over node.Deps.
EmitNodeBuild ==
    /\ HasTarget
    /\ ~Visited(Target)
    /\ ~IsDanglingLeaf(Target)
    /\ \E node \in {Target} :
       \E runners \in {RunnersOf[graph[node].Cmds]} :
       \E text \in {RuleTextOf[graph[node].Cmds][gomaDir]} :
       \E ruleName \in {IF Len(runners) > 0 THEN genRuleName ELSE PhonyRule} :
          /\ Len(runners) > 0 => text.err = NoErr
          /\ done' = MarkDone(node)
          /\ ruleId' = IF Len(runners) > 0 THEN ruleId + 1 ELSE ruleId
          /\ f' = f
                  \o (IF Len(runners) > 0
                      THEN RuleHead(ruleName, text) \o RuleCommand(text)
                      ELSE <<>>)
                  \o <<emitBuild(node, ruleName, getDepString(node))>>
                  \o (IF Len(runners) > 0 /\ text.ulp
                      THEN <<Line("pool", <<"l","o","c","a","l","_","p","o","o","l">>)>> ELSE <<>>)
          /\ stack' = Append(CallerStepped, [node |-> node, next |-> 1])
    /\ rootIdx' = RootStepped
    /\ calls' = calls + 1
    /\ UNCHANGED <<nodes, graph, gomaDir, sh, status, funcVars>>

\* emitNode on a node whose chain getDepfile rejects: the panic unwinds the
\* run; the deferred f.Close() leaves what was written in build.ninja.
EmitNodePanic ==
    /\ HasTarget
    /\ ~Visited(Target)
    /\ ~IsDanglingLeaf(Target)
    /\ \E runners \in {RunnersOf[graph[Target].Cmds]} :
       \E text \in {RuleTextOf[graph[Target].Cmds][gomaDir]} :
          /\ Len(runners) > 0
          /\ text.err # NoErr
          /\ f' = f \o <<Line("rule", genRuleName),
                         Line("description", <<"b","u","i","l","d"," ","$","o","u","t">>)>>
    /\ done' = MarkDone(Target)
    /\ ruleId' = ruleId + 1
    /\ calls' = calls + 1
    /\ status' = "panicked"
    /\ UNCHANGED <<nodes, graph, gomaDir, sh, stack, rootIdx, funcVars>>

\* emitNode returns once its loop over node.Deps is through.
EmitNodeReturn ==
    /\ status = "emitting"
    /\ stack # <<>>
    /\ Top.next > Len(graph[Top.node].Deps)
    /\ stack' = SubSeq(stack, 1, Len(stack) - 1)
    /\ UNCHANGED <<nodes, graph, gomaDir, done, ruleId, f, sh, rootIdx, status,
                   calls, funcVars>>

\* generateNinja returns once its loop over n.nodes is through.
GenerateNinjaReturn ==
    /\ status = "emitting"
    /\ stack = <<>>
    /\ rootIdx > Len(nodes)
    /\ status' = "done"
    /\ UNCHANGED <<nodes, graph, gomaDir, done, ruleId, f, sh, stack, rootIdx,
                   calls, funcVars>>

Next ==
    \/ GenerateShell
    \/ GenerateNinjaOpen
    \/ EmitNodeVisited
    \/ EmitNodeLeaf
    \/ EmitNodeBuild
    \/ EmitNodePanic
    \/ EmitNodeReturn
    \/ GenerateNinjaReturn

Spec == Init /\ [][Next]_vars

\* The run is sequential: a step that can be taken is taken.
FairSpec == Spec /\ WF_vars(Next)

Terminated == status \in {"done", "panicked"}

(***************************************************************************)
(* Properties of the generation run.                                       *)
(***************************************************************************)
LinesOf(t) == {i \in 1..Len(f) : f[i].t = t}

BuildLines(o) == {i \in LinesOf("build") : f[i].x.output = o}

Reachable == ReachableFrom(Range(nodes), [n \in Nodes |-> graph[n].Deps])

Edges == SumTo([n \in Nodes |-> Len(graph[n].Deps)], MaxCalls)

\* The node has no recipe commands, no dependencies and is not phony.
Bare(n) ==
    /\ graph[n].Cmds = <<>>
    /\ graph[n].Deps = <<>>
    /\ graph[n].IsPhony = FALSE

\* The nodes that list n as a prerequisite.
Parents(n) == {p \in Nodes : n \in Range(graph[p].Deps)}

\* C1: at every point of the run an output path has at most one build
\* statement in build.ninja, and once the traversal has returned every node
\* reachable from the roots that has commands, dependencies or is phony has
\* exactly one, and every other node has none.
C1_OneBuildPerOutput ==
    /\ \A o \in Nodes : Cardinality(BuildLines(o)) <= 1
    /\ status = "done" =>
          \A o \in Nodes :
             Cardinality(BuildLines(o)) = IF o \in Reachable /\ ~Bare(o) THEN 1 ELSE 0

\* The traversal has returned on a graph in which a node that is emitted is
\* listed by two nodes, and emitNode was called on it more than once.
C1_Witness ==
    /\ status = "done"
    /\ calls > Cardinality(done)
    /\ \E o \in Nodes : Cardinality(Parents(o)) >= 2 /\ Cardinality(BuildLines(o)) = 1

\* The rule block opened by line i has its command line, and its build
\* statement, before any other rule line or build statement.
Before(i, j) == \A k \in (i + 1)..(j - 1) : f[k].t \notin {"rule", "build"}

HasCommand(i) == \E j \in LinesOf("command") : j > i /\ Before(i, j)

HasBuild(i) ==
    \E j \in LinesOf("build") : j > i /\ Before(i, j) /\ f[j].x.rule = f[i].x

\* C7 as stated: in the state a getDepfile error leaves behind, build.ninja
\* holds no rule block without its command line or its build statement, and
\* neither ninja.sh nor build.ninja remains from the failed run.
C7_NoPartialOutput ==
    status = "panicked" =>
        /\ \A i \in LinesOf("rule") : HasCommand(i) /\ HasBuild(i)
        /\ sh = <<>>
        /\ f = <<>>

\* C8: a call of emitNode on a node with no recipe commands, no dependencies
\* and phony = false, whether from the root loop or from a parent's loop over
\* its Deps, writes nothing to build.ninja, leaves the rule counter unchanged,
\* starts no call of its own, and adds the node's Output to n.done; the
\* caller's loop moves on.
C8_DanglingLeafFrame ==
    [][HasTarget /\ Bare(Target) =>
          /\ f' = f
          /\ ruleId' = ruleId
          /\ done' = done \cup {Target}
          /\ Len(stack') = Len(stack)
          /\ calls' = calls + 1
          /\ status' = status]_vars

\* The traversal has returned; a bare node was reached as a prerequisite of
\* a node that has its build statement, some node was reached twice, and the
\* bare node has no build statement.
C8_Witness ==
    /\ status = "done"
    /\ calls > Cardinality(done)
    /\ \E n \in done :
          /\ Bare(n)
          /\ n \notin Range(nodes)
          /\ BuildLines(n) = {}
          /\ \E p \in Parents(n) : BuildLines(p) # {}

\* C9: the run ends, by return or by panic, on every graph, cycles and
\* self-edges included; the number of emitNode calls never exceeds the number
\* of roots plus the number of edges, and the calls that pass the n.done check
\* are one per Output in n.done.
C9_Terminates ==
    /\ <>Terminated
    /\ [](calls <= Len(nodes) + Edges)
    /\ [][calls' = calls + 1 /\ done' = done =>
            /\ f' = f
            /\ ruleId' = ruleId
            /\ Len(stack') = Len(stack)]_vars
    /\ [][done' # done =>
            /\ calls' = calls + 1
            /\ Cardinality(done') = Cardinality(done) + 1]_vars

\* A node lies on a dependency cycle.
OnCycle(n) == n \in ReachableFrom(Range(graph[n].Deps), [m \in Nodes |-> graph[m].Deps])

\* The traversal has returned from a graph with a cycle of two nodes, having
\* made as many calls as there are roots and edges.
C9_Witness ==
    /\ status = "done"
    /\ \E n \in Nodes : OnCycle(n) /\ n \notin Range(graph[n].Deps)
    /\ calls = Len(nodes) + Edges

\* The names of the rule lines, in the order written.
RuleNames ==
    LET rules == LinesOf("rule")
        nth(n) == CHOOSE i \in rules : Cardinality({j \in rules : j < i}) = n - 1
    IN [n \in 1..Cardinality(rules) |-> f[nth(n)].x]

RuleCounterMatches ==
    /\ ruleId = Cardinality(LinesOf("rule"))
    /\ RuleNames = [n \in 1..ruleId |-> RuleName(n - 1)]
    /\ \A i, j \in 1..Len(RuleNames) : RuleNames[i] = RuleNames[j] => i = j

EachRuleHasItsBuild ==
    \A i \in LinesOf("rule") :
        /\ HasBuild(i)
        /\ Cardinality({j \in LinesOf("build") : f[j].x.rule = f[i].x}) = 1

PhonyForNoCommands ==
    \A j \in LinesOf("build") :
        createRunners(graph[f[j].x.output].Cmds) = <<>> <=> f[j].x.rule = PhonyRule

\* C10 as stated: in every reachable state the rule counter equals the number
\* of rule blocks written; the rule names are rule0, rule1, ... in order, none
\* twice; each rule block is followed, before any other rule block or build
\* statement, by the one build statement that references it; and a build
\* statement is bound to the phony rule exactly when the executor returned
\* no commands for its node.
C10_RuleBlocks ==
    /\ RuleCounterMatches
    /\ EachRuleHasItsBuild
    /\ PhonyForNoCommands

\* The same, in the states of runs that getDepfile has not aborted.
RuleBlocksUnlessAborted == status # "panicked" => C10_RuleBlocks

====
